---- MODULE Spec2Model ----
(***************************************************************************)
(* gitset-cli: the credential store, the API client, the staged-change     *)
(* pipeline and the command handlers of the CLI (cli 1.1.0), as a state    *)
(* machine, followed by the single command of cli 0.2.0 (src/index.js).    *)
(* One process runs one command; the credential files, the working         *)
(* directory and the git repository outlive the processes.                 *)
(***************************************************************************)
EXTENDS Integers, Sequences, FiniteSets, TLC

VARIABLES
    platform,     \* process.platform
    files,        \* the file system: content of each candidate credentials path
    git,          \* the repository the tool is run in: staged listing, remote
    clock,        \* wall clock, one tick per command invocation
    uuids,        \* number of crypto.randomUUID() values drawn so far
    pc,           \* position of the running command: idle, diff, fetching, responded, exited
    cmd,          \* the command being run and its arguments
    stagedFiles,  \* generateCommitMessage: const files
    fileChanges,  \* generateCommitMessage: const fileChanges
    diffCalls,    \* getGitDiff calls made by this process
    diffResults,  \* the getGitDiff calls completed so far, in completion order:
                  \* which file, what git answered, what was returned
    workdir,      \* names of the files, other than the credential record, that
                  \* were written into the working directory
    request,      \* the HTTP request in flight (last one issued by this process)
    sent,         \* number of HTTP requests issued by this process
    response,     \* the HTTP response delivered to this process
    out,          \* what this process has logged
    exitCode,     \* the process exit code, -1 while it runs
    ending,       \* how the process ended: success, noop, caught, quota
    lastLoad      \* the last loadConfig() call: whether this step made it, its branch, the id returned

vars == <<platform, files, git, clock, uuids, pc, cmd, stagedFiles, fileChanges,
          diffCalls, diffResults, workdir, request, sent, response, out,
          exitCode, ending, lastLoad>>

(***************************************************************************)
(* Bounds of the model.                                                    *)
(***************************************************************************)
MaxRuns == 3
MaxFiles == 2

(***************************************************************************)
(* Strings are sequences of tokens; "/" is a token of its own, so that     *)
(* startsWith, includes and replace work on them as they do on the text.   *)
(***************************************************************************)
startsWith(s, prefix) ==
    /\ Len(s) >= Len(prefix)
    /\ SubSeq(s, 1, Len(prefix)) = prefix

includes(s, sub) ==
    \E i \in 1..(Len(s) + 1) :
        /\ i + Len(sub) - 1 <= Len(s)
        /\ SubSeq(s, i, i + Len(sub) - 1) = sub

\* String.prototype.replace with a string pattern: the first occurrence only.
replace(s, pat, rep) ==
    LET hits == {i \in 1..Len(s) :
                    /\ i + Len(pat) - 1 <= Len(s)
                    /\ SubSeq(s, i, i + Len(pat) - 1) = pat}
    IN  IF hits = {} THEN s
        ELSE LET i == CHOOSE h \in hits : \A k \in hits : h <= k
             IN  SubSeq(s, 1, i - 1) \o rep \o SubSeq(s, i + Len(pat), Len(s))

\* path.basename: what follows the last "/".
basename(s) ==
    LET slashes == {i \in 1..Len(s) : s[i] = "/"}
        last == IF slashes = {} THEN 0
                ELSE CHOOSE i \in slashes : \A k \in slashes : k <= i
    IN  SubSeq(s, last + 1, Len(s))

\* String.prototype.trim, for the one trailing newline git prints.
trim(s) ==
    IF Len(s) > 0 /\ s[Len(s)] = "\n" THEN SubSeq(s, 1, Len(s) - 1) ELSE s

(***************************************************************************)
(* Credential store.                                                       *)
(***************************************************************************)
NoKey == "null"
NoData == "null"

CONFIG_LOCATIONS ==
    [ global |-> "global",
      local  |-> "local",
      system |-> [darwin |-> "darwin", win32 |-> "win32", linux |-> "linux"] ]

ConfigPaths == {"local", "global", "darwin", "win32", "linux"}

\* import fs from 'fs/promises': that namespace has no existsSync, so the
\* call fs.existsSync(p) throws a TypeError, which getConfigPath swallows.
fsHasExistsSync == FALSE

existsSync(fs, p) == fs[p].kind # "absent"

getConfigPath(fs) ==
    IF fsHasExistsSync /\ existsSync(fs, CONFIG_LOCATIONS.local)
    THEN CONFIG_LOCATIONS.local
    ELSE IF fsHasExistsSync /\ existsSync(fs, CONFIG_LOCATIONS.global)
    THEN CONFIG_LOCATIONS.global
    ELSE IF platform \in DOMAIN CONFIG_LOCATIONS.system
    THEN CONFIG_LOCATIONS.system[platform]
    ELSE CONFIG_LOCATIONS.system.linux

Absent == [kind |-> "absent", licenseKey |-> NoKey, lastValidation |-> 0,
           installationId |-> 0, subscriptionData |-> NoData]

Corrupt == [Absent EXCEPT !.kind = "corrupt"]

\* loadConfig: const storedConfig
storedConfig == [kind |-> "record", licenseKey |-> NoKey, lastValidation |-> 0,
                 installationId |-> 0, subscriptionData |-> NoData]

randomUUID(n) == n + 1

\* ensureConfigDir resolves the path again; writeFile replaces the whole file.
saveConfig(fs, config) ==
    [fs EXCEPT ![getConfigPath(fs)] = [config EXCEPT !.kind = "record"]]

\* loadConfig with the test of parsedConfig.installationId lost: a new id is
\* drawn and saved on every load.
loadConfigRegenerates(fs, n) ==
    LET f == fs[getConfigPath(fs)] IN
    IF f.kind = "corrupt"
    THEN [threw |-> TRUE, config |-> storedConfig, fs |-> fs,
          uuids |-> n, branch |-> "threw"]
    ELSE LET c == [(IF f.kind = "absent" THEN storedConfig ELSE f)
                        EXCEPT !.installationId = randomUUID(n)]
         IN  [threw |-> FALSE, config |-> c, fs |-> saveConfig(fs, c),
              uuids |-> n + 1,
              branch |-> IF f.kind = "absent" THEN "enoent" ELSE "backfill"]

\* loadConfig without the test of error.code: every failure of the read or
\* of the parse starts the first run.
loadConfigAnyErrorFirstRun(fs, n) ==
    LET f == fs[getConfigPath(fs)] IN
    IF f.kind \in {"absent", "corrupt"}
    THEN LET c == [storedConfig EXCEPT !.installationId = randomUUID(n)]
         IN  [threw |-> FALSE, config |-> c, fs |-> saveConfig(fs, c),
              uuids |-> n + 1, branch |-> "enoent"]
    ELSE IF f.installationId = 0
    THEN LET c == [f EXCEPT !.installationId = randomUUID(n)]
         IN  [threw |-> FALSE, config |-> c, fs |-> saveConfig(fs, c),
              uuids |-> n + 1, branch |-> "backfill"]
    ELSE [threw |-> FALSE, config |-> f, fs |-> fs, uuids |-> n, branch |-> "read"]

\* loadConfig with the first-run record returned but never written.
loadConfigForgetsSave(fs, n) ==
    LET f == fs[getConfigPath(fs)] IN
    IF f.kind = "absent"
    THEN LET c == [storedConfig EXCEPT !.installationId = randomUUID(n)]
         IN  [threw |-> FALSE, config |-> c, fs |-> fs,
              uuids |-> n + 1, branch |-> "enoent"]
    ELSE IF f.kind = "corrupt"
    THEN [threw |-> TRUE, config |-> storedConfig, fs |-> fs,
          uuids |-> n, branch |-> "threw"]
    ELSE IF f.installationId = 0
    THEN LET c == [f EXCEPT !.installationId = randomUUID(n)]
         IN  [threw |-> FALSE, config |-> c, fs |-> saveConfig(fs, c),
              uuids |-> n + 1, branch |-> "backfill"]
    ELSE [threw |-> FALSE, config |-> f, fs |-> fs, uuids |-> n, branch |-> "read"]

\* The result of loadConfig: the config returned (or threw), the file system
\* and the uuid counter after it, and the branch taken.
loadConfig(fs, n) ==
    LET f == fs[getConfigPath(fs)] IN
    IF f.kind = "absent"
    THEN LET c == [storedConfig EXCEPT !.installationId = randomUUID(n)]
         IN  [threw |-> FALSE, config |-> c, fs |-> saveConfig(fs, c),
              uuids |-> n + 1, branch |-> "enoent"]
    ELSE IF f.kind = "corrupt"
    THEN [threw |-> TRUE, config |-> storedConfig, fs |-> fs,
          uuids |-> n, branch |-> "threw"]
    ELSE IF f.installationId = 0
    THEN LET c == [f EXCEPT !.installationId = randomUUID(n)]
         IN  [threw |-> FALSE, config |-> c, fs |-> saveConfig(fs, c),
              uuids |-> n + 1, branch |-> "backfill"]
    ELSE [threw |-> FALSE, config |-> f, fs |-> fs, uuids |-> n, branch |-> "read"]

loadRecord(l) ==
    [called |-> TRUE, branch |-> l.branch,
     id |-> IF l.threw THEN 0 ELSE l.config.installationId]

notLoaded == [lastLoad EXCEPT !.called = FALSE]

(***************************************************************************)
(* Change filter and git inspector.                                        *)
(***************************************************************************)
IGNORED_FILES ==
    { "package-lock.json", "yarn.lock", "pnpm-lock.yaml", ".env", "venv",
      "node_modules", ".DS_Store", "dist", "build", "__pycache__",
      ".pytest_cache", "coverage" }

shouldIgnoreFile(filePath) ==
    \E ignored \in IGNORED_FILES :
        \/ filePath = <<ignored>>
        \/ startsWith(filePath, <<ignored, "/">>)
        \/ includes(filePath, <<"/", "node_modules", "/">>)
        \/ includes(filePath, <<"/", "__pycache__", "/">>)
        \/ includes(filePath, <<"/", "venv", "/">>)

\* line.split('\t'): the status is the first part, the file is the rest,
\* joined by tabs again.
RECURSIVE joinTab(_)
joinTab(parts) ==
    IF Len(parts) = 0 THEN <<>>
    ELSE IF Len(parts) = 1 THEN parts[1]
    ELSE parts[1] \o <<"\t">> \o joinTab(Tail(parts))

parseLine(line) == [status |-> line.status, file |-> joinTab(line.parts)]

RECURSIVE mapLines(_)
mapLines(lines) ==
    IF lines = <<>> THEN <<>>
    ELSE <<parseLine(Head(lines))>> \o mapLines(Tail(lines))

keepFile(f) == ~shouldIgnoreFile(f.file)

\* getStagedFiles without the filter on shouldIgnoreFile.
getStagedFilesUnfiltered(g) ==
    IF ~g.repo THEN <<>>
    ELSE mapLines(g.staged)

\* getStagedFiles: "git diff --cached --name-status", parsed and filtered;
\* the empty list when git fails.
getStagedFiles(g) ==
    IF ~g.repo THEN <<>>
    ELSE SelectSeq(mapLines(g.staged), keepFile)

\* What the three git calls of getGitDiff can do for a file of a given
\* status: "git rev-parse HEAD" fails in a repository without commits,
\* "git show HEAD:file" finds a file only if HEAD has it, "git show :file"
\* only if the index has it (index: whether that call would succeed); every
\* call can fail.
GitOutcomes(status) ==
    { o \in [head : BOOLEAN, prev : BOOLEAN, index : BOOLEAN] :
        /\ o.prev => (o.head /\ status \in {"M", "D", "T"})
        /\ o.index => status \in {"A", "M", "T"} }

NoDiff == [ok |-> FALSE, previous |-> "", current |-> ""]

getGitDiff(o) ==
    IF ~o.head THEN NoDiff
    ELSE IF ~o.index THEN NoDiff
    ELSE [ok |-> TRUE,
          previous |-> IF o.prev THEN "old" ELSE "",
          current |-> "new"]

changeType(status) ==
    IF status = "A" THEN "added"
    ELSE IF status = "M" THEN "modified"
    ELSE "deleted"

FileChange(f, diffResult) ==
    [name |-> basename(f.file),
     path |-> f.file,
     changeType |-> changeType(f.status),
     contentType |-> "text",
     before |-> diffResult.previous,
     after |-> diffResult.current]

getRepoInfo(g) ==
    IF ~g.hasRemote THEN <<>>
    ELSE replace(replace(replace(trim(g.remote),
                                 <<"git@github.com:">>, <<>>),
                         <<"https://github.com/">>, <<>>),
                 <<".git">>, <<>>)

\* getLastCommits: "git log -<count>", one subject per line, newest first;
\* ''.split('\n') is [''], and the empty list is returned when git fails.
getLastCommits(g, count) ==
    IF ~g.repo \/ count < 0 \/ Len(g.log) = 0 THEN <<>>
    ELSE IF count = 0 THEN <<"">>
    ELSE SubSeq(g.log, 1, IF count < Len(g.log) THEN count ELSE Len(g.log))

\* const commitHistory without the test of the mode: the log is always read.
commitHistoryInEveryMode(g, mode, count) ==
    [queried |-> TRUE, commits |-> getLastCommits(g, count)]

\* const commitHistory: the log is read in custom mode only; queried tells
\* whether getLastCommits was called (it logs 'History' when it is).
commitHistory(g, mode, count) ==
    IF mode = "custom"
    THEN [queried |-> TRUE, commits |-> getLastCommits(g, count)]
    ELSE [queried |-> FALSE, commits |-> <<>>]

(***************************************************************************)
(* API client.                                                             *)
(***************************************************************************)
NoBody == [licenseKey |-> NoKey, repo_name |-> <<>>, file_changes |-> <<>>,
           mode |-> "", commit_history |-> <<>>]

NoRequest == [method |-> "", endpoint |-> "none", licenseKeyHeader |-> NoKey,
              installationIdHeader |-> 0, body |-> NoBody]

NoResponse == [net |-> FALSE, status |-> 0, json |-> FALSE, bstatus |-> "",
               message |-> "", product_name |-> NoData, commit_message |-> FALSE]

\* The answers of the remote service: net is FALSE when fetch itself rejects.
Responses ==
    { [NoResponse EXCEPT !.net = TRUE, !.status = 200, !.json = TRUE,
                         !.product_name = "GitSet Pro", !.commit_message = TRUE],
      [NoResponse EXCEPT !.net = TRUE, !.status = 200, !.json = TRUE,
                         !.product_name = "Basic", !.commit_message = TRUE],
      [NoResponse EXCEPT !.net = TRUE, !.status = 200, !.json = TRUE],
      [NoResponse EXCEPT !.net = TRUE, !.status = 200],
      [NoResponse EXCEPT !.net = TRUE, !.status = 429, !.json = TRUE,
                         !.bstatus = "quota_exceeded", !.message = "limit reached"],
      [NoResponse EXCEPT !.net = TRUE, !.status = 429, !.json = TRUE,
                         !.message = "slow down"],
      [NoResponse EXCEPT !.net = TRUE, !.status = 500, !.json = TRUE,
                         !.message = "validation failed"],
      [NoResponse EXCEPT !.net = TRUE, !.status = 500, !.json = TRUE],
      [NoResponse EXCEPT !.net = TRUE, !.status = 502],
      NoResponse }

responseOk(r) == r.status >= 200 /\ r.status <= 299

\* makeApiRequest taking X-License-Key from the request data instead of
\* the loaded credentials.
makeApiRequestKeyFromData(fs, n, endpoint, data) ==
    LET l == loadConfig(fs, n)
        config == l.config
        backfill == ~l.threw /\ config.installationId = 0
        config2 == IF backfill
                   THEN [config EXCEPT !.installationId = randomUUID(l.uuids)]
                   ELSE config
    IN  [threw |-> l.threw,
         load |-> l,
         fs |-> IF backfill THEN saveConfig(l.fs, config2) ELSE l.fs,
         uuids |-> IF backfill THEN l.uuids + 1 ELSE l.uuids,
         request |-> [method |-> "POST",
                      endpoint |-> endpoint,
                      licenseKeyHeader |-> data.licenseKey,
                      installationIdHeader |-> config2.installationId,
                      body |-> data]]

\* makeApiRequest up to the fetch: the credentials are loaded, the headers
\* built and one POST issued; threw when loadConfig threw.
makeApiRequest(fs, n, endpoint, data) ==
    LET l == loadConfig(fs, n)
        config == l.config
        backfill == ~l.threw /\ config.installationId = 0
        config2 == IF backfill
                   THEN [config EXCEPT !.installationId = randomUUID(l.uuids)]
                   ELSE config
    IN  [threw |-> l.threw,
         load |-> l,
         fs |-> IF backfill THEN saveConfig(l.fs, config2) ELSE l.fs,
         uuids |-> IF backfill THEN l.uuids + 1 ELSE l.uuids,
         request |-> [method |-> "POST",
                      endpoint |-> endpoint,
                      licenseKeyHeader |-> config2.licenseKey,
                      installationIdHeader |-> config2.installationId,
                      body |-> data]]

\* makeApiRequest without the quota case: every response that is not ok is
\* thrown to the caller.
apiFailureNoQuota(r) ==
    IF ~r.net THEN [kind |-> "throw", message |-> "fetch failed"]
    ELSE IF ~r.json THEN [kind |-> "throw", message |-> "invalid json"]
    ELSE IF responseOk(r) THEN [kind |-> "none", message |-> ""]
    ELSE [kind |-> "throw",
          message |-> IF r.message # "" THEN r.message ELSE "Failed to make request"]

\* makeApiRequest after the fetch, when it does not return a body: fetch
\* rejected, or response.json() rejected (of the error body, or of the body
\* of an ok response), or the response is not ok.
\* "quota": the notice is printed and process.exit(1) called here;
\* "throw": an Error goes to the caller, with this message.
apiFailure(r) ==
    IF ~r.net THEN [kind |-> "throw", message |-> "fetch failed"]
    ELSE IF ~r.json THEN [kind |-> "throw", message |-> "invalid json"]
    ELSE IF responseOk(r) THEN [kind |-> "none", message |-> ""]
    ELSE IF r.status = 429 /\ r.bstatus = "quota_exceeded"
    THEN [kind |-> "quota", message |-> r.message]
    ELSE [kind |-> "throw",
          message |-> IF r.message # "" THEN r.message ELSE "Failed to make request"]

quotaNotice ==
    { "Quota: Monthly request limit reached:", "Info: message",
      "Info: Next reset date", "Info: Remaining days",
      "Upgrade", "Command", "Purchase" }

\* product_name.toLowerCase().includes('pro')
isProPlan(product_name) == product_name \in {"GitSet Pro", "pro", "Professional"}

(***************************************************************************)
(* The environment a behaviour starts in.                                  *)
(***************************************************************************)
Platforms == {"darwin", "win32", "linux", "freebsd"}

\* A credentials file the user keeps in the project or in ~/.config/gitset.
UserRecord == [storedConfig EXCEPT !.licenseKey = "KEY-U", !.installationId = 101]

\* What the platform's default location can hold on disk before a run:
\* nothing, an unreadable file, or a record written before installation ids
\* existed (with or without a license).
SystemFiles ==
    { Absent, Corrupt, storedConfig,
      [storedConfig EXCEPT !.licenseKey = "KEY-0", !.lastValidation = 1,
                           !.subscriptionData = "Basic"] }

FileSystems ==
    { fs \in [ConfigPaths -> {Absent, Corrupt, UserRecord} \cup SystemFiles] :
        /\ fs["local"] \in {Absent, UserRecord}
        /\ fs["global"] \in {Absent, UserRecord}
        /\ \A p \in {"darwin", "win32", "linux"} :
              IF p = getConfigPath(fs) THEN fs[p] \in SystemFiles ELSE fs[p] = Absent }

Line(status, file) == [status |-> status, parts |-> <<file>>]

NoGit == [repo |-> FALSE, staged |-> <<>>, hasRemote |-> FALSE, remote |-> <<>>,
          log |-> <<>>]

\* The repositories of the command runs: not a repository; nothing staged;
\* only ignored files staged; a mixed listing with a remote and a history.
Repositories ==
    { NoGit,
      [NoGit EXCEPT !.repo = TRUE],
      [NoGit EXCEPT !.repo = TRUE,
                    !.staged = <<Line("M", <<"package-lock.json">>),
                                 Line("A", <<"node_modules", "/", "x.js">>)>>],
      [NoGit EXCEPT !.repo = TRUE,
                    !.staged = <<Line("M", <<"package-lock.json">>),
                                 Line("A", <<"src", "/", "app.ts">>)>>,
                    !.hasRemote = TRUE,
                    !.remote = <<"git@github.com:", "acme", "/", "widgets", ".git", "\n">>,
                    !.log = <<"feat: one", "fix: two">>] }

\* --mode takes any text; "fancy" stands for a value that is neither mode.
Modes == {"semantic", "custom", "fancy"}
CommitCounts == {1, 20}
LicenseKeys == {"KEY-1", "KEY-2"}

NoCmd == [name |-> "none", mode |-> "", commitCount |-> 0, licenseKey |-> NoKey]

InitProcess ==
    /\ clock = 0
    /\ uuids = 0
    /\ pc = "idle"
    /\ cmd = NoCmd
    /\ stagedFiles = <<>>
    /\ fileChanges = <<>>
    /\ diffCalls = 0
    /\ diffResults = <<>>
    /\ workdir = {}
    /\ request = NoRequest
    /\ sent = 0
    /\ response = NoResponse
    /\ out = {}
    /\ exitCode = -1
    /\ ending = "none"
    /\ lastLoad = [called |-> FALSE, branch |-> "none", id |-> 0]

Init ==
    /\ platform \in Platforms
    /\ files \in FileSystems
    /\ git \in Repositories
    /\ InitProcess

(***************************************************************************)
(* Command handlers.  A process starts when none runs, and ends by         *)
(* returning from its handler (exit code 0) or in process.exit(1).         *)
(***************************************************************************)
CanStart == pc \in {"idle", "exited"} /\ clock < MaxRuns

\* A new process: nothing of the previous one is left but the disk.
Start(c) ==
    /\ CanStart
    /\ clock' = clock + 1
    /\ cmd' = c
    /\ UNCHANGED <<platform, workdir, git>>

Exit(code, how, logged) ==
    /\ pc' = "exited"
    /\ exitCode' = code
    /\ ending' = how
    /\ out' = logged

\* The catch block of a command's handler: process.exit(1) follows the log
\* in suggest, activate and deactivate; the status handler only logs.
catchExit(name) == IF name = "status" THEN 0 ELSE 1

\* error.message.includes('validation'), over the messages of the model
mentionsValidation(message) == message \in {"validation failed"}

Catch(name, logged, message) ==
    Exit(catchExit(name), "caught",
         logged \cup {"Error", message}
                \cup (IF name = "status" /\ mentionsValidation(message)
                      THEN {"Help: Your license might have expired"} ELSE {}))

\* Issue the request m.request as the process's next one, or end in the
\* catch block when loadConfig threw.
Send(name, m, logged) ==
    /\ files' = m.fs
    /\ uuids' = m.uuids
    /\ lastLoad' = loadRecord(m.load)
    /\ IF m.threw
       THEN /\ Catch(name, logged, "cannot read credentials")
            /\ UNCHANGED <<request, sent>>
       ELSE /\ request' = m.request
            /\ sent' = sent + 1
            /\ pc' = "fetching"
            /\ out' = logged
            /\ UNCHANGED <<exitCode, ending>>

\* The state a process starts from.
Fresh ==
    /\ fileChanges' = <<>>
    /\ diffCalls' = 0
    /\ diffResults' = <<>>
    /\ response' = NoResponse

FreshSend(name, m, logged) ==
    /\ files' = m.fs
    /\ uuids' = m.uuids
    /\ lastLoad' = loadRecord(m.load)
    /\ IF m.threw
       THEN /\ Catch(name, logged, "cannot read credentials")
            /\ request' = NoRequest
            /\ sent' = 0
       ELSE /\ request' = m.request
            /\ sent' = 1
            /\ pc' = "fetching"
            /\ out' = logged
            /\ exitCode' = -1
            /\ ending' = "none"

\* generateCommitMessage without the early return.
nothingStagedIgnored(listed) == FALSE

\* generateCommitMessage: if (files.length === 0) return
nothingStaged(listed) == Len(listed) = 0

\* The record activate saves, without the spread of the loaded config.
activatedWithoutSpread(config, licenseKey, now, data) ==
    [storedConfig EXCEPT !.licenseKey = licenseKey,
                         !.lastValidation = now,
                         !.subscriptionData = data]

\* The record activate saves: { ...config, licenseKey, lastValidation,
\* subscriptionData: response.data }
activated(config, licenseKey, now, data) ==
    [config EXCEPT !.licenseKey = licenseKey,
                   !.lastValidation = now,
                   !.subscriptionData = data]

\* The record deactivate saves, without the spread of the loaded config.
deactivatedWithoutSpread(config) == storedConfig

\* The record deactivate saves: { ...config, licenseKey: null,
\* lastValidation: null, subscriptionData: null }
deactivated(config) ==
    [config EXCEPT !.licenseKey = NoKey,
                   !.lastValidation = 0,
                   !.subscriptionData = NoData]

(***************************************************************************)
(* suggest                                                                 *)
(***************************************************************************)
\* generateCommitMessage up to the first getGitDiff.
RunSuggest ==
    \E mode \in Modes, count \in CommitCounts :
        /\ Start([NoCmd EXCEPT !.name = "suggest", !.mode = mode, !.commitCount = count])
        /\ Fresh
        /\ request' = NoRequest
        /\ sent' = 0
        /\ lastLoad' = notLoaded
        /\ UNCHANGED <<files, uuids>>
        /\ LET listed == getStagedFiles(git) IN
           IF nothingStaged(listed)
           THEN /\ Exit(0, "noop", {"Git: No files staged"})
                /\ stagedFiles' = <<>>
           ELSE /\ stagedFiles' = listed
                /\ pc' = "diff"
                /\ out' = {"Files: Analyzing"}
                /\ exitCode' = -1
                /\ ending' = "none"

\* One turn of the loop over files: getGitDiff, then push or continue.
DiffStep ==
    /\ pc = "diff"
    /\ diffCalls < Len(stagedFiles)
    /\ LET f == stagedFiles[diffCalls + 1] IN
       \E o \in GitOutcomes(f.status) :
           LET diffResult == getGitDiff(o) IN
           /\ fileChanges' = IF diffResult.ok
                             THEN Append(fileChanges, FileChange(f, diffResult))
                             ELSE fileChanges
           /\ diffResults' = Append(diffResults,
                                    [file |-> diffCalls + 1, o |-> o,
                                     result |-> diffResult])
    /\ diffCalls' = diffCalls + 1
    /\ lastLoad' = notLoaded
    /\ UNCHANGED <<platform, workdir, files, git, clock, uuids, pc, cmd, stagedFiles,
                   request, sent, response, out, exitCode, ending>>

\* After the loop: getRepoInfo, getLastCommits in custom mode, and the
\* request to /generate-commit-message.
SuggestSend ==
    /\ pc = "diff"
    /\ diffCalls = Len(stagedFiles)
    /\ LET repoName == getRepoInfo(git)
           history == commitHistory(git, cmd.mode, cmd.commitCount)
           data == [NoBody EXCEPT !.repo_name = repoName,
                                  !.file_changes = fileChanges,
                                  !.mode = cmd.mode,
                                  !.commit_history = history.commits]
       IN  Send("suggest",
                makeApiRequest(files, uuids, "/generate-commit-message", data),
                out \cup {"API: Processing diffs"}
                    \cup (IF history.queried THEN {"History: Fetching last commits"}
                          ELSE {}))
    /\ diffResults' = <<>>
    /\ UNCHANGED <<platform, workdir, git, clock, cmd, stagedFiles, fileChanges,
                   diffCalls, response>>

\* The remote service answers the request in flight, or the fetch fails.
Respond ==
    /\ pc = "fetching"
    /\ \E r \in Responses : response' = r
    /\ pc' = "responded"
    /\ lastLoad' = notLoaded
    /\ UNCHANGED <<platform, workdir, files, git, clock, uuids, cmd, stagedFiles,
                   fileChanges, diffResults, diffCalls, request, sent, out, exitCode, ending>>

\* makeApiRequest returned the parsed body of an ok response.
Delivered == pc = "responded" /\ apiFailure(response).kind = "none"

\* makeApiRequest on a response that is not ok (or no response at all, or
\* no JSON body): the quota notice and process.exit(1), or an Error thrown
\* into the handler's catch block.
ApiFailure ==
    /\ pc = "responded"
    /\ apiFailure(response).kind # "none"
    /\ LET failure == apiFailure(response) IN
       IF failure.kind = "quota"
       THEN Exit(1, "quota", out \cup quotaNotice)
       ELSE Catch(cmd.name, out, failure.message)
    /\ lastLoad' = notLoaded
    /\ UNCHANGED <<platform, workdir, files, git, clock, uuids, cmd, stagedFiles,
                   fileChanges, diffResults, diffCalls, request, sent, response>>

\* generateCommitMessage after the request: the message is printed; a body
\* without commit_message makes formatCommitMessage throw.
SuggestDone ==
    /\ Delivered
    /\ cmd.name = "suggest"
    /\ IF response.commit_message
       THEN Exit(0, "success", out \cup {"Success: Commit message generated"})
       ELSE Catch("suggest", out \cup {"Success: Commit message generated"},
                  "cannot read properties of undefined")
    /\ lastLoad' = notLoaded
    /\ UNCHANGED <<platform, workdir, files, git, clock, uuids, cmd, stagedFiles,
                   fileChanges, diffResults, diffCalls, request, sent, response>>

(***************************************************************************)
(* activate                                                                *)
(***************************************************************************)
\* activate <licenseKey>, up to the validation request.
RunActivate ==
    \E licenseKey \in LicenseKeys :
        /\ Start([NoCmd EXCEPT !.name = "activate", !.licenseKey = licenseKey])
        /\ Fresh
        /\ stagedFiles' = <<>>
        /\ FreshSend("activate",
                     makeApiRequest(files, uuids, "/validate-license",
                                    [NoBody EXCEPT !.licenseKey = licenseKey]),
                     {})

\* activate <licenseKey>, after the validation succeeded: the key is saved
\* with the subscription data; response.data.product_name is read after the
\* save.
ActivateSave ==
    /\ Delivered
    /\ cmd.name = "activate"
    /\ cmd.licenseKey # NoKey
    /\ LET l == loadConfig(files, uuids) IN
       /\ lastLoad' = loadRecord(l)
       /\ uuids' = l.uuids
       /\ IF l.threw
          THEN /\ files' = l.fs
               /\ Catch("activate", out, "cannot read credentials")
          ELSE /\ files' = saveConfig(l.fs, activated(l.config, cmd.licenseKey, clock,
                                                       response.product_name))
               /\ IF response.product_name = NoData
                  THEN Catch("activate", out \cup {"Success: License activated"},
                             "cannot read properties of undefined")
                  ELSE Exit(0, "success", out \cup {"Success: License activated"})
    /\ UNCHANGED <<platform, workdir, git, clock, cmd, stagedFiles, fileChanges, diffResults,
                   diffCalls, request, sent, response>>

\* activate without an argument: the stored license is validated, or the
\* free-tier guidance printed.
RunActivateShow ==
    /\ Start([NoCmd EXCEPT !.name = "activate"])
    /\ Fresh
    /\ stagedFiles' = <<>>
    /\ LET l == loadConfig(files, uuids) IN
       IF l.threw
       THEN /\ files' = l.fs
            /\ uuids' = l.uuids
            /\ lastLoad' = loadRecord(l)
            /\ request' = NoRequest
            /\ sent' = 0
            /\ Catch("activate", {}, "cannot read credentials")
       ELSE IF l.config.licenseKey # NoKey
       THEN FreshSend("activate",
                      makeApiRequest(l.fs, l.uuids, "/validate-license",
                                     [NoBody EXCEPT !.licenseKey = l.config.licenseKey]),
                      {"License: Current license status"})
       ELSE /\ files' = l.fs
            /\ uuids' = l.uuids
            /\ lastLoad' = loadRecord(l)
            /\ request' = NoRequest
            /\ sent' = 0
            /\ Exit(0, "noop", {"License: No license key configured"})

ActivateShown ==
    /\ Delivered
    /\ cmd.name = "activate"
    /\ cmd.licenseKey = NoKey
    /\ IF response.product_name = NoData
       THEN Catch("activate", out, "cannot read properties of undefined")
       ELSE Exit(0, "success", out \cup {"Status: Plan"})
    /\ lastLoad' = notLoaded
    /\ UNCHANGED <<platform, workdir, files, git, clock, uuids, cmd, stagedFiles,
                   fileChanges, diffResults, diffCalls, request, sent, response>>
(***************************************************************************)
(* status                                                                  *)
(***************************************************************************)
\* status, up to the validation request.
RunStatus ==
    /\ Start([NoCmd EXCEPT !.name = "status"])
    /\ Fresh
    /\ stagedFiles' = <<>>
    /\ LET l == loadConfig(files, uuids) IN
       IF l.threw
       THEN /\ files' = l.fs
            /\ uuids' = l.uuids
            /\ lastLoad' = loadRecord(l)
            /\ request' = NoRequest
            /\ sent' = 0
            /\ Catch("status", {}, "cannot read credentials")
       ELSE IF l.config.licenseKey = NoKey
       THEN /\ files' = l.fs
            /\ uuids' = l.uuids
            /\ lastLoad' = loadRecord(l)
            /\ request' = NoRequest
            /\ sent' = 0
            /\ Exit(0, "noop", {"License: No license key configured"})
       ELSE FreshSend("status",
                      makeApiRequest(l.fs, l.uuids, "/validate-license",
                                     [NoBody EXCEPT !.licenseKey = l.config.licenseKey]),
                      {})

\* status, after the validation succeeded: a plan that is not pro gets a
\* second request, to /usage-info, with the key loaded at the start.
StatusValidated ==
    /\ Delivered
    /\ cmd.name = "status"
    /\ request.endpoint = "/validate-license"
    /\ IF response.product_name = NoData
       THEN /\ Catch("status", out \cup {"License: License is active and valid"},
                     "cannot read properties of undefined")
            /\ lastLoad' = notLoaded
            /\ UNCHANGED <<files, uuids, request, sent>>
       ELSE IF isProPlan(response.product_name)
       THEN /\ Exit(0, "success", out \cup {"License: License is active and valid",
                                            "Usage: Unlimited requests (Pro Plan)"})
            /\ lastLoad' = notLoaded
            /\ UNCHANGED <<files, uuids, request, sent>>
       ELSE Send("status",
                 makeApiRequest(files, uuids, "/usage-info",
                                [NoBody EXCEPT !.licenseKey = request.body.licenseKey]),
                 out \cup {"License: License is active and valid",
                           "Usage: Request limits (Basic Plan)"})
    /\ UNCHANGED <<platform, workdir, git, clock, cmd, stagedFiles, fileChanges, diffResults,
                   diffCalls, response>>

StatusUsage ==
    /\ Delivered
    /\ cmd.name = "status"
    /\ request.endpoint = "/usage-info"
    /\ Exit(0, "success", out \cup {"Info: Used", "Info: Reset date"})
    /\ lastLoad' = notLoaded
    /\ UNCHANGED <<platform, workdir, files, git, clock, uuids, cmd, stagedFiles,
                   fileChanges, diffResults, diffCalls, request, sent, response>>

(***************************************************************************)
(* deactivate                                                              *)
(***************************************************************************)
RunDeactivate ==
    /\ Start([NoCmd EXCEPT !.name = "deactivate"])
    /\ Fresh
    /\ stagedFiles' = <<>>
    /\ request' = NoRequest
    /\ sent' = 0
    /\ LET l == loadConfig(files, uuids) IN
       /\ uuids' = l.uuids
       /\ lastLoad' = loadRecord(l)
       /\ IF l.threw
          THEN /\ files' = l.fs
               /\ Catch("deactivate", {}, "cannot read credentials")
          ELSE IF l.config.licenseKey = NoKey
          THEN /\ files' = l.fs
               /\ Exit(0, "noop", {"Info: No active license found"})
          ELSE /\ files' = saveConfig(l.fs, deactivated(l.config))
               /\ Exit(0, "success", {"Success: License deactivated successfully"})

(***************************************************************************)
(* The commands of the CLI, run one after another.                         *)
(***************************************************************************)
Next ==
    \/ RunSuggest
    \/ DiffStep
    \/ SuggestSend
    \/ Respond
    \/ ApiFailure
    \/ SuggestDone
    \/ RunActivate
    \/ ActivateSave
    \/ RunActivateShow
    \/ ActivateShown
    \/ RunStatus
    \/ StatusValidated
    \/ StatusUsage
    \/ RunDeactivate

Spec == Init /\ [][Next]_vars

TypeOK ==
    /\ platform \in Platforms
    /\ pc \in {"idle", "diff", "fetching", "responded", "exited"}
    /\ exitCode \in {-1, 0, 1}
    /\ (pc = "exited") = (exitCode # -1)
    /\ sent \in 0..2
    /\ clock \in 0..MaxRuns
    /\ response \in Responses
    /\ ending \in {"none", "success", "noop", "caught", "quota"}
(***************************************************************************)
(* The suggest command alone, over every staged listing of up to MaxFiles  *)
(* lines, on a machine that has no credentials yet.                        *)
(***************************************************************************)
StagedPaths ==
    { <<"package-lock.json">>,
      <<"build">>,
      <<"src", "/", "app.ts">>,
      <<"node_modules", "/", "x.js">>,
      <<"dist", "/", "a.js">>,
      <<"lib", "/", "node_modules", "/", "x.js">>,
      <<"src", "/", "dist", "/", "a.js">>,
      <<"lib", "/", "venv">>,
      <<"docs", "/", "yarn.lock">>,
      <<".env">>,
      <<"app", "/", "__pycache__", "/", "m.pyc">>,
      <<"packages", "/", "ui", "/", "coverage", "/", "lcov.info">> }

StagedLines ==
    { Line("M", p) : p \in StagedPaths }
    \cup { Line(st, <<"src", "/", "main.ts">>) : st \in {"A", "D", "T"} }
    \cup { [status |-> "R100", parts |-> << <<"old.ts">>, <<"new.ts">> >>] }

Listings ==
    UNION { { l \in [1..n -> StagedLines] :
                \A i, j \in 1..n : l[i].parts = l[j].parts => i = j } : n \in 0..MaxFiles }

InitGen ==
    /\ platform = "linux"
    /\ files = [p \in ConfigPaths |-> Absent]
    /\ git \in { [NoGit EXCEPT !.repo = TRUE, !.staged = l,
                               !.hasRemote = TRUE,
                               !.remote = <<"https://github.com/", "acme", "/", "widgets", ".git", "\n">>,
                               !.log = <<"feat: one">>] : l \in Listings }
    /\ InitProcess

\* The pipeline up to the request: listing, filter, content, assembly.
NextGen ==
    \/ RunSuggest
    \/ DiffStep
    \/ SuggestSend

SpecGen == InitGen /\ [][NextGen]_vars
(***************************************************************************)
(* The suggest command over the remotes of a repository: both GitHub URL   *)
(* forms, with and without the ".git" suffix, owners and repositories      *)
(* whose names contain ".git", and no remote at all.                       *)
(***************************************************************************)
RemotePrefixes == {"git@github.com:", "https://github.com/"}
RemoteOwners == { <<"acme">>, <<"my", ".git", "hub">> }
RemoteRepos == { <<"widgets">>, <<"acme", ".git", "hub", ".io">>, <<"dot", ".git", "ignore">> }
RemoteSuffixes == { <<>>, <<".git">> }

\* What "git config --get remote.origin.url" prints.
RemoteUrls ==
    { <<p>> \o owner \o <<"/">> \o repo \o suffix \o <<"\n">> :
        p \in RemotePrefixes, owner \in RemoteOwners,
        repo \in RemoteRepos, suffix \in RemoteSuffixes }

InitRepo ==
    /\ platform = "linux"
    /\ files = [p \in ConfigPaths |-> Absent]
    /\ git \in { [NoGit EXCEPT !.repo = TRUE,
                               !.staged = <<Line("M", <<"src", "/", "app.ts">>)>>,
                               !.hasRemote = TRUE,
                               !.remote = url,
                               !.log = <<"feat: one">>] : url \in RemoteUrls }
               \cup { [NoGit EXCEPT !.repo = TRUE,
                                    !.staged = <<Line("M", <<"src", "/", "app.ts">>)>>] }
    /\ InitProcess

SpecRepo == InitRepo /\ [][NextGen]_vars
(***************************************************************************)
(* cli 0.2.0 (src/index.js): one command, which lists the staged files,    *)
(* fetches the contents of all of them concurrently, skips the files over  *)
(* MAX_LINES lines, and posts the payload itself.  It keeps no             *)
(* credentials.                                                            *)
(***************************************************************************)
MAX_LINES == 3000

\* A file content: its number of lines, and whether the last line ends in
\* a newline.  stdout.split('\n').length counts the pieces around the
\* newlines.
Empty == [lines |-> 0, eol |-> FALSE]

Contents ==
    [lines : {MAX_LINES - 1, MAX_LINES, MAX_LINES + 1}, eol : BOOLEAN]

splitLength(content) ==
    IF content.eol THEN content.lines + 1
    ELSE IF content.lines = 0 THEN 1
    ELSE content.lines

\* What the three git calls of getGitDiff can do, with the contents that
\* "git show" prints when it succeeds.
GitShowOutcomes(status) ==
    { o \in [head : BOOLEAN, prev : BOOLEAN, index : BOOLEAN,
             previous : Contents \cup {Empty}, current : Contents \cup {Empty}] :
        /\ o.prev => (o.head /\ status \in {"M", "D", "T"})
        /\ o.index => status \in {"A", "M", "T"}
        /\ o.prev = (o.previous # Empty)
        /\ o.index = (o.current # Empty) }

NoDiffMaxLines == [ok |-> FALSE, previous |-> Empty, current |-> Empty]

\* getGitDiff of src/index.js
getGitDiffMaxLines(o) ==
    IF ~o.head THEN NoDiffMaxLines
    ELSE IF o.prev /\ splitLength(o.previous) > MAX_LINES THEN NoDiffMaxLines
    ELSE IF ~o.index THEN NoDiffMaxLines
    ELSE IF splitLength(o.current) > MAX_LINES THEN NoDiffMaxLines
    ELSE [ok |-> TRUE,
          previous |-> IF o.prev THEN o.previous ELSE Empty,
          current |-> o.current]

\* path.extname(file).toLowerCase(), for paths whose extension is a token
Extensions == {".ts", ".png", ".json"}

extname(file) ==
    IF Len(file) >= 2 /\ file[Len(file)] \in Extensions /\ file[Len(file) - 1] # "/"
    THEN file[Len(file)]
    ELSE ""

FileChangeOfType(f, diffResult) ==
    [FileChange(f, diffResult) EXCEPT
        !.contentType = IF extname(f.file) \in {".jpg", ".png", ".gif", ".pdf"}
                        THEN "binary" ELSE "text"]

\* The array Promise.all resolves to, in completion order instead of the
\* order of the promises.
promiseAllInCompletionOrder(completions) == completions

\* The array Promise.all resolves to: the value of each promise at the
\* index of that promise, whatever the order the promises settled in.
promiseAll(completions) ==
    [i \in 1..Len(completions) |->
        completions[CHOOSE k \in 1..Len(completions) : completions[k].file = i]]

notNull(completion) == completion.result.ok

\* The error thrown for a response that is not ok: the body is read as
\* text and parsed if it can be.
mentions429(message) == message \in {"429 Too Many Requests"}

serverError(r) ==
    IF r.json /\ r.status = 500 /\ mentions429(r.message)
    THEN "The API rate limit has been reached"
    ELSE IF r.json /\ r.message # "" THEN "Server error: message"
    ELSE "Server error: body"

\* generateCommitMessage up to the Promise.all: every getGitDiff is called.
RunGenerate ==
    /\ Start([NoCmd EXCEPT !.name = "generate"])
    /\ fileChanges' = <<>>
    /\ diffResults' = <<>>
    /\ response' = NoResponse
    /\ request' = NoRequest
    /\ sent' = 0
    /\ lastLoad' = notLoaded
    /\ UNCHANGED <<files, uuids>>
    /\ LET listed == getStagedFiles(git) IN
       IF nothingStaged(listed)
       THEN /\ Exit(0, "noop", {"Git: No files staged"})
            /\ stagedFiles' = <<>>
            /\ diffCalls' = 0
       ELSE /\ stagedFiles' = listed
            /\ diffCalls' = Len(listed)
            /\ pc' = "diff"
            /\ out' = {"Files: Analyzing"}
            /\ exitCode' = -1
            /\ ending' = "none"

\* One of the pending getGitDiff calls completes; they complete in any
\* order.
DiffSettles ==
    /\ pc = "diff"
    /\ cmd.name = "generate"
    /\ \E i \in 1..Len(stagedFiles) :
        /\ \A k \in 1..Len(diffResults) : diffResults[k].file # i
        /\ \E o \in GitShowOutcomes(stagedFiles[i].status) :
            diffResults' = Append(diffResults,
                                  [file |-> i, o |-> o,
                                   result |-> getGitDiffMaxLines(o)])
    /\ lastLoad' = notLoaded
    /\ UNCHANGED <<platform, workdir, files, git, clock, uuids, pc, cmd, stagedFiles,
                   fileChanges, diffCalls, request, sent, response, out,
                   exitCode, ending>>

\* All of them completed: the null results are filtered out, the payload
\* is written to debug-payload.json in the working directory, and posted.
GenerateSend ==
    /\ pc = "diff"
    /\ cmd.name = "generate"
    /\ Len(diffResults) = Len(stagedFiles)
    /\ LET kept == SelectSeq(promiseAll(diffResults), notNull)
           changes == [i \in 1..Len(kept) |->
                          FileChangeOfType(stagedFiles[kept[i].file], kept[i].result)]
       IN  /\ fileChanges' = changes
           /\ request' = [NoRequest EXCEPT
                             !.method = "POST",
                             !.endpoint = "/generate-commit-message",
                             !.body = [NoBody EXCEPT !.repo_name = getRepoInfo(git),
                                                     !.file_changes = changes]]
    /\ workdir' = workdir \cup {"debug-payload.json"}
    /\ sent' = sent + 1
    /\ pc' = "fetching"
    /\ out' = out \cup {"API: Processing diffs", "Debug: Payload saved"}
    /\ diffResults' = <<>>
    /\ lastLoad' = notLoaded
    /\ UNCHANGED <<platform, files, git, clock, uuids, cmd, stagedFiles,
                   diffCalls, response, exitCode, ending>>

\* fetch rejected, or the response is not ok: the catch block, exit(1).
GenerateFailure ==
    /\ pc = "responded"
    /\ cmd.name = "generate"
    /\ ~response.net \/ ~responseOk(response)
    /\ Catch("generate", out,
             IF ~response.net THEN "fetch failed" ELSE serverError(response))
    /\ lastLoad' = notLoaded
    /\ UNCHANGED <<platform, workdir, files, git, clock, uuids, cmd, stagedFiles,
                   fileChanges, diffResults, diffCalls, request, sent, response>>

\* The response is ok: its body is parsed and the message printed.
GenerateDone ==
    /\ pc = "responded"
    /\ cmd.name = "generate"
    /\ response.net /\ responseOk(response)
    /\ IF ~response.json
       THEN Catch("generate", out, "invalid json")
       ELSE IF response.commit_message
       THEN Exit(0, "success", out \cup {"Success: Commit message generated"})
       ELSE Catch("generate", out \cup {"Success: Commit message generated"},
                  "cannot read properties of undefined")
    /\ lastLoad' = notLoaded
    /\ UNCHANGED <<platform, workdir, files, git, clock, uuids, cmd, stagedFiles,
                   fileChanges, diffResults, diffCalls, request, sent, response>>

\* The staged listings of this command's runs: an added binary file, a
\* modified and a deleted source file, and a lock file.
GenerateLines ==
    { Line("A", <<"logo", ".png">>),
      Line("M", <<"src", "/", "app", ".ts">>),
      Line("D", <<"old", ".ts">>),
      Line("M", <<"package-lock.json">>) }

GenerateListings ==
    UNION { { l \in [1..n -> GenerateLines] :
                \A i, j \in 1..n : l[i] = l[j] => i = j } : n \in 0..MaxFiles }

InitIndex ==
    /\ platform = "linux"
    /\ files = [p \in ConfigPaths |-> Absent]
    /\ git \in { [NoGit EXCEPT !.repo = TRUE, !.staged = l,
                               !.hasRemote = TRUE,
                               !.remote = <<"https://github.com/", "acme", "/", "widgets", ".git", "\n">>,
                               !.log = <<"feat: one">>] : l \in GenerateListings }
    /\ InitProcess

NextIndex ==
    \/ RunGenerate
    \/ DiffSettles
    \/ GenerateSend
    \/ Respond
    \/ GenerateFailure
    \/ GenerateDone

SpecIndex == InitIndex /\ [][NextIndex]_vars
(***************************************************************************)
(* Properties.                                                             *)
(***************************************************************************)
\* The record persisted at the resolved credentials path.
Persisted == files[getConfigPath(files)]

GenerationRequest == request.endpoint = "/generate-commit-message"

RequestPaths ==
    { request.body.file_changes[i].path : i \in 1..Len(request.body.file_changes) }

ListedFiles == { joinTab(git.staged[i].parts) : i \in 1..Len(git.staged) }

\* Position i of p starts a path segment, which is a directory named name.
DirectoryAt(p, i, name) ==
    /\ i + 1 <= Len(p)
    /\ p[i] = name
    /\ p[i + 1] = "/"
    /\ (i = 1 \/ p[i - 1] = "/")

\* The ignore policy as C1 words it: the path is an entry of the ignore
\* list, or lies under a directory named by an entry, at the top or deeper.
MatchesIgnorePolicy(p) ==
    \E e \in IGNORED_FILES :
        \/ p = <<e>>
        \/ \E i \in 1..Len(p) : DirectoryAt(p, i, e)

\* The ignore policy the filter applies: the path is an entry, or lies under
\* a top-level directory named by an entry, or under a deeper directory
\* named node_modules, __pycache__ or venv.
MatchesAppliedPolicy(p) ==
    \/ \E e \in IGNORED_FILES : p = <<e>> \/ DirectoryAt(p, 1, e)
    \/ \E i \in 2..Len(p) :
          \E e \in {"node_modules", "__pycache__", "venv"} : DirectoryAt(p, i, e)

\* C1 as stated: no file matching the ignore policy (equal to an entry, or
\* under a directory named by an entry anywhere in the path) appears in the
\* file_changes of the generation request.
C1_NoIgnoredFileInRequest ==
    GenerationRequest => \A p \in RequestPaths : ~MatchesIgnorePolicy(p)

\* C1 amended: no file that equals an ignore-list entry, lies under a
\* top-level directory named by an entry, or lies under a deeper directory
\* named node_modules, __pycache__ or venv appears in fileChanges or in the
\* file_changes of the generation request.
C1_NoFilteredFileInRequest ==
    /\ \A i \in 1..Len(fileChanges) : ~MatchesAppliedPolicy(fileChanges[i].path)
    /\ GenerationRequest => \A p \in RequestPaths : ~MatchesAppliedPolicy(p)

\* A request went out for a listing that held both a filtered file and one
\* that reached file_changes.
C1_Witness ==
    /\ GenerationRequest
    /\ RequestPaths # {}
    /\ \E p \in ListedFiles : MatchesAppliedPolicy(p) /\ p \notin RequestPaths

\* The changeType C2 gives a status code.
ClaimedChangeType(status) ==
    IF status = "A" THEN "added"
    ELSE IF status = "M" THEN "modified"
    ELSE IF status = "D" THEN "deleted"
    ELSE status

\* C2: every FileChange of the request has the changeType its staged file's
\* status code maps to: A added, M modified, D deleted, any other code
\* passed through unchanged.
C2_ChangeTypeOfStatus ==
    GenerationRequest =>
        \A i \in 1..Len(request.body.file_changes) :
            LET fc == request.body.file_changes[i] IN
            \E k \in 1..Len(stagedFiles) :
                /\ stagedFiles[k].file = fc.path
                /\ fc.changeType = ClaimedChangeType(stagedFiles[k].status)

\* C3: once a readable record holds an installationId, no step changes or
\* drops it, every load() returns it, and the id a load() returns is the one
\* persisted.
C3_InstallationIdStable ==
    [][ /\ (Persisted.kind = "record" /\ Persisted.installationId # 0) =>
              /\ Persisted'.kind = "record"
              /\ Persisted'.installationId = Persisted.installationId
              /\ lastLoad'.called => lastLoad'.id = Persisted.installationId
        /\ (lastLoad'.called /\ lastLoad'.id # 0) =>
              Persisted'.installationId = lastLoad'.id ]_vars

\* A second command read back the one id the first command's load() drew.
C3_Witness ==
    /\ clock >= 2
    /\ uuids = 1
    /\ lastLoad.called
    /\ lastLoad.branch = "read"
    /\ lastLoad.id = 1
    /\ Persisted.installationId = 1

\* C4: a load() that finds no file at the resolved path creates the file
\* there, with a fresh installationId, which it returns, and no license key;
\* the load() after it returns the same installationId.
C4_FirstRun ==
    [][ /\ (Persisted.kind = "absent" /\ lastLoad'.called) =>
              /\ getConfigPath(files') = getConfigPath(files)
              /\ Persisted'.kind = "record"
              /\ Persisted'.installationId = uuids + 1
              /\ uuids' = uuids + 1
              /\ Persisted'.licenseKey = NoKey
              /\ lastLoad'.branch = "enoent"
              /\ lastLoad'.id = Persisted'.installationId
        /\ (lastLoad.branch = "enoent" /\ lastLoad'.called) =>
              /\ lastLoad'.branch = "read"
              /\ lastLoad'.id = lastLoad.id ]_vars

\* The load() after a first run has read the file the first run created.
C4_Witness ==
    /\ lastLoad.called
    /\ lastLoad.branch = "read"
    /\ uuids = 1
    /\ Persisted = [storedConfig EXCEPT !.installationId = 1]
    /\ cmd.name = "deactivate"

\* The step that runs the deactivate command.
DeactivateStep == cmd'.name = "deactivate" /\ clock' = clock + 1

LicenseCleared(r) ==
    /\ r.licenseKey = NoKey
    /\ r.lastValidation = 0
    /\ r.subscriptionData = NoData

\* C5 as stated: deactivate on a record with a license key leaves the
\* persisted installationId as it was and clears licenseKey, lastValidation
\* and subscriptionData; with no license key stored, it leaves the
\* persisted record unchanged.
C5_DeactivateFrame ==
    [][ DeactivateStep =>
          IF Persisted.kind = "record" /\ Persisted.licenseKey # NoKey
          THEN /\ Persisted'.installationId = Persisted.installationId
               /\ LicenseCleared(Persisted')
          ELSE files' = files ]_vars

\* C5 amended: deactivate never changes an installationId the record holds;
\* on a record with a license key it clears licenseKey, lastValidation and
\* subscriptionData; with no license key stored it leaves a record that
\* holds an installationId unchanged; where the file or its installationId
\* is missing, the only other change is the installationId load() creates.
C5_DeactivateFrameAmended ==
    [][ DeactivateStep =>
          /\ Persisted.installationId # 0 =>
                Persisted'.installationId = Persisted.installationId
          /\ (Persisted.kind = "record" /\ Persisted.licenseKey # NoKey) =>
                /\ LicenseCleared(Persisted')
                /\ Persisted'.installationId # 0
                /\ Persisted'.kind = "record"
          /\ (Persisted.kind = "record" /\ Persisted.licenseKey = NoKey
                /\ Persisted.installationId # 0) => files' = files
          /\ Persisted.kind = "corrupt" => files' = files
          /\ (Persisted.kind # "corrupt" /\ Persisted.installationId = 0) =>
                /\ lastLoad'.id = uuids + 1
                /\ files' = [files EXCEPT ![getConfigPath(files)] =
                               [deactivated(Persisted) EXCEPT
                                   !.kind = "record",
                                   !.installationId = lastLoad'.id]] ]_vars

\* deactivate has cleared a license and kept the installationId.
C5_Witness ==
    /\ pc = "exited"
    /\ cmd.name = "deactivate"
    /\ ending = "success"
    /\ LicenseCleared(Persisted)
    /\ Persisted.installationId # 0

QuotaResponse ==
    /\ pc = "responded"
    /\ response.net
    /\ response.status = 429
    /\ response.json
    /\ response.bstatus = "quota_exceeded"

\* C6: on a 429 response whose body has status quota_exceeded, the process
\* prints the reset date and the remaining days and ends with exit code 1,
\* issuing no further request and writing no credentials.
C6_QuotaShortCircuit ==
    [][ QuotaResponse =>
          /\ pc' = "exited"
          /\ exitCode' = 1
          /\ {"Info: Next reset date", "Info: Remaining days"} \subseteq out'
          /\ sent' = sent
          /\ request' = request
          /\ files' = files ]_vars

\* The status command ended on the quota notice.
C6_Witness ==
    /\ pc = "exited"
    /\ cmd.name = "status"
    /\ ending = "quota"
    /\ exitCode = 1
    /\ "Info: Remaining days" \in out

\* C7: a process that ended has exit code 0 exactly when its command
\* succeeded or was an informational no-op; an error caught at the command
\* boundary, or the quota rejection, gives a non-zero exit code.
C7_ExitCodes ==
    pc = "exited" => ((exitCode = 0) <=> (ending \in {"success", "noop"}))

\* The path C8 says getConfigPath returns: the project-local file if it
\* exists, else the user-global file if it exists, else the platform default.
PrecedencePath ==
    IF files[CONFIG_LOCATIONS.local].kind # "absent" THEN CONFIG_LOCATIONS.local
    ELSE IF files[CONFIG_LOCATIONS.global].kind # "absent" THEN CONFIG_LOCATIONS.global
    ELSE IF platform = "darwin" THEN CONFIG_LOCATIONS.system.darwin
    ELSE IF platform = "win32" THEN CONFIG_LOCATIONS.system.win32
    ELSE CONFIG_LOCATIONS.system.linux

\* C8: getConfigPath returns the project-local path when that file exists,
\* else the user-global path when that file exists, else the platform
\* default, for every combination of existing files.
C8_ConfigPathPrecedence ==
    getConfigPath(files) = PrecedencePath

\* A step of a process running activate <licenseKey>.
ActivateKeyStep == cmd'.name = "activate" /\ cmd'.licenseKey # NoKey

\* C9: activate <licenseKey> writes the key only in the step that follows
\* a successful validation response, and then the record holds the new key,
\* the timestamp, the returned subscription data and the installationId it
\* held before; every other step of the command leaves licenseKey,
\* lastValidation and subscriptionData as they were.
C9_ActivatePersistsAfterValidation ==
    [][ ActivateKeyStep =>
          IF Delivered
          THEN /\ Persisted'.kind = "record"
               /\ Persisted'.licenseKey = cmd.licenseKey
               /\ Persisted'.lastValidation = clock
               /\ Persisted'.lastValidation # 0
               /\ Persisted'.subscriptionData = response.product_name
               /\ Persisted'.installationId = Persisted.installationId
               /\ Persisted'.installationId # 0
          ELSE /\ Persisted'.licenseKey = Persisted.licenseKey
               /\ Persisted'.lastValidation = Persisted.lastValidation
               /\ Persisted'.subscriptionData = Persisted.subscriptionData ]_vars

\* activate <licenseKey> replaced a stored license after its validation.
C9_Witness ==
    /\ pc = "exited"
    /\ cmd.name = "activate"
    /\ cmd.licenseKey = "KEY-2"
    /\ ending = "success"
    /\ Persisted.licenseKey = "KEY-2"
    /\ Persisted.lastValidation = clock
    /\ Persisted.subscriptionData = response.product_name
    /\ Persisted.installationId # 0
    /\ clock >= 2

\* The listing is empty after filtering, or git failed to produce one.
ListingEmpty == ~git.repo \/ \A p \in ListedFiles : shouldIgnoreFile(p)

\* C10: when the staged listing is empty after filtering, or git fails, the
\* suggest command returns with no HTTP request issued and no file content
\* fetched.
C10_NoWorkWithoutStagedFiles ==
    (cmd.name = "suggest" /\ ListingEmpty) =>
        /\ pc = "exited"
        /\ exitCode = 0
        /\ sent = 0
        /\ request = NoRequest
        /\ diffCalls = 0
        /\ fileChanges = <<>>

\* suggest returned early on a listing that held only ignored files.
C10_Witness ==
    /\ cmd.name = "suggest"
    /\ pc = "exited"
    /\ git.repo
    /\ ListedFiles # {}
    /\ ListingEmpty
    /\ sent = 0

(***************************************************************************)
(* C11: every HTTP request issued by makeApiRequest is a POST, one per     *)
(* call, whose X-Installation-Id is the installationId of the record       *)
(* persisted at that moment, and whose X-License-Key is present exactly    *)
(* when that record stores a license key, with the stored key as value.    *)
(* (NoKey as header value stands for the header being absent.)             *)
(***************************************************************************)
C11_RequestHeaders ==
    pc = "fetching" =>
        /\ request.method = "POST"
        /\ sent >= 1
        /\ Persisted.kind = "record"
        /\ request.installationIdHeader # 0
        /\ request.installationIdHeader = Persisted.installationId
        /\ request.licenseKeyHeader = Persisted.licenseKey

\* A key is being activated while another one is stored: the header carries
\* the stored key, the body the new one.
C11_Witness ==
    /\ pc = "fetching"
    /\ request.endpoint = "/validate-license"
    /\ request.licenseKeyHeader # NoKey
    /\ request.body.licenseKey # request.licenseKeyHeader
    /\ request.licenseKeyHeader = Persisted.licenseKey

(***************************************************************************)
(* C12: the repo_name of the generation request is exactly owner/repo of   *)
(* the remote URL, for both URL forms, with or without the ".git" suffix,  *)
(* also when the owner or the repository name contains ".git"; and the     *)
(* empty string when no remote is configured.                              *)
(***************************************************************************)
\* owner/repo of a remote URL: what is between the prefix and the suffix.
OwnerRepo(remote) ==
    LET url == trim(remote)
        rest == SubSeq(url, 2, Len(url))
    IN  IF rest[Len(rest)] = ".git" THEN SubSeq(rest, 1, Len(rest) - 1) ELSE rest

C12_RepoIdentity ==
    GenerationRequest =>
        request.body.repo_name = IF git.hasRemote THEN OwnerRepo(git.remote) ELSE <<>>

(***************************************************************************)
(* C13: once HEAD is resolved, getGitDiff returns the failure sentinel     *)
(* only when both lookups fail: when only the previous-commit lookup       *)
(* fails the result is a pair with previous '', and when only the index    *)
(* lookup fails (a staged deletion) the result is a pair with current ''.  *)
(***************************************************************************)
C13_SentinelOnlyWhenBothFail ==
    \A i \in 1..Len(diffResults) :
        LET o == diffResults[i].o
            result == diffResults[i].result
        IN  o.head =>
                /\ (~result.ok) = (~o.prev /\ ~o.index)
                /\ (~o.prev /\ o.index) => (result.ok /\ result.previous = "")
                /\ (o.prev /\ ~o.index) => (result.ok /\ result.current = "")

(***************************************************************************)
(* C14: when the content fetches are over, the command goes on to the      *)
(* request, and the file_changes of the request is exactly the             *)
(* subsequence of the non-ignored listing whose getGitDiff returned a      *)
(* result, in the order of the listing, whatever the order the concurrent  *)
(* fetches completed in; a fetch that failed removes only its own file.    *)
(***************************************************************************)
PathsOf(changes) == [i \in 1..Len(changes) |-> changes[i].path]

\* The listed paths whose fetch returned a result, in listing order.
FetchedPaths ==
    LET fetched(i) == \E k \in 1..Len(diffResults) :
                          diffResults[k].file = i /\ diffResults[k].result.ok
        kept == SelectSeq([i \in 1..Len(stagedFiles) |-> i], fetched)
    IN  [j \in 1..Len(kept) |-> stagedFiles[kept[j]].file]

C14_FileChangesInListingOrder ==
    [][(pc = "diff" /\ pc' # "diff") =>
          /\ pc' = "fetching"
          /\ PathsOf(request'.body.file_changes) = FetchedPaths]_vars

\* Two files listed, the fetch of the first failed: the request carries the
\* second alone.
C14_Witness ==
    /\ pc = "fetching"
    /\ cmd.name = "generate"
    /\ Len(stagedFiles) = 2
    /\ PathsOf(request.body.file_changes) = <<stagedFiles[2].file>>

(***************************************************************************)
(* C15: for every response that is not 2xx and is not the quota response,  *)
(* with a JSON body or a plain-text one, makeApiRequest delivers one error *)
(* to its caller, whose message is the message field of the body when      *)
(* there is one and the generic failure message otherwise.                 *)
(***************************************************************************)
C15_ErrorMessageOfBody ==
    ( /\ pc = "exited"
      /\ cmd.name \in {"suggest", "activate", "status"}
      /\ response.net
      /\ ~responseOk(response)
      /\ ~(response.status = 429 /\ response.bstatus = "quota_exceeded") )
    => /\ ending = "caught"
       /\ (IF response.json /\ response.message # ""
           THEN response.message
           ELSE "Failed to make request") \in out

(***************************************************************************)
(* C16: when the credential file exists but cannot be read or parsed, the  *)
(* load raises the error to the command, which ends in its catch block;    *)
(* no installationId is generated and the file is left as it is.  Only a   *)
(* file that does not exist starts the first-run initialisation.           *)
(***************************************************************************)
C16_UnreadableFileRaises ==
    [][lastLoad'.called =>
          /\ Persisted.kind = "corrupt" =>
                /\ lastLoad'.branch = "threw"
                /\ lastLoad'.id = 0
                /\ uuids' = uuids
                /\ files' = files
                /\ pc' = "exited"
                /\ ending' = "caught"
                /\ "cannot read credentials" \in out'
          /\ lastLoad'.branch = "enoent" => Persisted.kind = "absent"]_vars

\* A command has just run on an unparseable credential file.
C16_Witness ==
    /\ Persisted.kind = "corrupt"
    /\ lastLoad.called
    /\ lastLoad.branch = "threw"
    /\ pc = "exited"
    /\ ending = "caught"
    /\ uuids = 0

(***************************************************************************)
(* C17: the commit_history of a generation request is empty whenever its   *)
(* mode is not 'custom', and the commit log is queried only when the mode  *)
(* is 'custom'.                                                            *)
(***************************************************************************)
C17_HistoryOnlyInCustomMode ==
    /\ (GenerationRequest /\ request.body.mode # "custom")
           => request.body.commit_history = <<>>
    /\ (cmd.name = "suggest" /\ "History: Fetching last commits" \in out)
           => cmd.mode = "custom"

\* A semantic request from a repository that has a history.
C17_Witness ==
    /\ GenerationRequest
    /\ request.body.mode = "semantic"
    /\ Len(git.log) > 0
    /\ request.body.commit_history = <<>>
    /\ "History: Fetching last commits" \notin out

(***************************************************************************)
(* C18: in every generation request of the suggest command the mode field  *)
(* is 'semantic' or 'custom', whatever value the user passes to --mode.    *)
(***************************************************************************)
C18_ModeIsSemanticOrCustom ==
    (GenerationRequest /\ cmd.name = "suggest")
        => request.body.mode \in {"semantic", "custom"}

(***************************************************************************)
(* C19: in the size-limiting variant a file whose contents git can show is *)
(* skipped exactly when its previous or its staged content has more than   *)
(* 3000 lines; a content of exactly 3000 lines, the last one ended by a    *)
(* newline, is not skipped.                                                *)
(***************************************************************************)
C19_SkippedIffOverMaxLines ==
    \A i \in 1..Len(diffResults) :
        LET o == diffResults[i].o
            result == diffResults[i].result
        IN  (cmd.name = "generate" /\ o.head /\ o.index) =>
                (~result.ok) = (o.previous.lines > MAX_LINES \/ o.current.lines > MAX_LINES)

(***************************************************************************)
(* C20: on every path through the generation command, no file other than   *)
(* the credential record is created or overwritten: no temporary file,     *)
(* nothing written into the working directory.                             *)
(***************************************************************************)
C20_NoFileWritten == workdir = {}
====
